---- MODULE Spec2Model ----
(***************************************************************************)
(* scripts/generate-openresponses-fixtures.py as a state machine.          *)
(*                                                                         *)
(* sample_from_schema is run one call or one return at a time on an        *)
(* explicit call stack, so that the depth of every call, every write to    *)
(* SAMPLE_CACHE and every mutation of a sampled mapping is a step of the   *)
(* model.  Python dicts built by the sampler live in `heap` and are        *)
(* referred to by identity, as in Python: the same dict can be reached     *)
(* from SAMPLE_CACHE, from type_to_event and from several positions of the *)
(* returned event list.                                                    *)
(***************************************************************************)
EXTENDS Integers, Sequences, FiniteSets, TLC

\* ------------------------------------------------------------------------
\* JSON values.  A schema document is a JSON value; so is a sample, except
\* that a mapping built by the sampler is a reference into the heap.
\* ------------------------------------------------------------------------
Null == [k |-> "null"]
B(b) == [k |-> "bool", b |-> b]
I(n) == [k |-> "int", n |-> n]
S(s) == [k |-> "str", s |-> s]
L(l) == [k |-> "list", l |-> l]
D(d) == [k |-> "dict", d |-> d]
Obj(id) == [k |-> "obj", id |-> id]

EmptyMap == [x \in {} |-> Null]

IsDict(v) == v.k = "dict"
\* isinstance(v, dict) of a sample: the schemas of this model hold no mapping
\* in a literal position (const, enum, default), so a sample is a mapping
\* exactly when it was built by the sampler.
IsMapping(v) == v.k = "obj"
Has(v, key) == key \in DOMAIN v.d
\* dict.get(key, default)
Get(v, key, default) == IF key \in DOMAIN v.d THEN v.d[key] ELSE default
Put(m, key, v) == [x \in DOMAIN m \cup {key} |-> IF x = key THEN v ELSE m[x]]
\* dict.update(other)
Update(m, other) == [x \in DOMAIN m \cup DOMAIN other |-> IF x \in DOMAIN other THEN other[x] ELSE m[x]]

\* ------------------------------------------------------------------------
\* Strings
\* ------------------------------------------------------------------------
Char(s, i) == SubSeq(s, i, i)
EndsWith(s, suffix) == Len(s) >= Len(suffix) /\ SubSeq(s, Len(s) - Len(suffix) + 1, Len(s)) = suffix
StartsWith(s, prefix) == Len(s) >= Len(prefix) /\ SubSeq(s, 1, Len(prefix)) = prefix

\* The pieces of s between the occurrences of the one-character separator
\* (str.split(sep)): one more piece than there are separators.
Split(s, sep) ==
    LET breaks == {i \in 1..Len(s) : Char(s, i) = sep}
        at(n) == IF n = 0 THEN 0
                 ELSE IF n > Cardinality(breaks) THEN Len(s) + 1
                 ELSE CHOOSE i \in breaks : Cardinality({j \in breaks : j < i}) = n - 1
    IN [n \in 1..(Cardinality(breaks) + 1) |-> SubSeq(s, at(n - 1) + 1, at(n) - 1)]

\* Code points of the characters that occur in paths, in ASCII order.
AsciiOrder == "-./0123456789ABCDEFGHIJKLMNOPQRSTUVWXYZ_abcdefghijklmnopqrstuvwxyz"
Ord(c) == CHOOSE i \in 1..Len(AsciiOrder) : Char(AsciiOrder, i) = c

RECURSIVE StrLessFrom(_, _, _)
StrLessFrom(a, b, i) ==
    IF i > Len(b) THEN FALSE
    ELSE IF i > Len(a) THEN TRUE
    ELSE IF Char(a, i) = Char(b, i) THEN StrLessFrom(a, b, i + 1)
    ELSE Ord(Char(a, i)) < Ord(Char(b, i))
StrLess(a, b) == StrLessFrom(a, b, 1)

Digits == "0123456789"
IsDigit(c) == \E i \in 1..10 : Char(Digits, i) = c
DigitVal(c) == (CHOOSE i \in 1..10 : Char(Digits, i) = c) - 1
RECURSIVE ParseNat(_, _, _)
ParseNat(s, i, acc) == IF i > Len(s) THEN acc ELSE ParseNat(s, i + 1, 10 * acc + DigitVal(Char(s, i)))
IsDecimal(s) == Len(s) > 0 /\ \A i \in 1..Len(s) : IsDigit(Char(s, i))
RECURSIVE NatStr(_)
NatStr(n) == IF n < 10 THEN Char(Digits, n + 1) ELSE NatStr(n \div 10) \o Char(Digits, (n % 10) + 1)
IntStr(n) == IF n < 0 THEN "-" \o NatStr(-n) ELSE NatStr(n)

\* ------------------------------------------------------------------------
\* Python operations on JSON values that can raise
\* ------------------------------------------------------------------------
Ok(v) == [ok |-> TRUE, v |-> v]
Raise(e) == [ok |-> FALSE, exc |-> e]

\* v[0]
Subscript0(v) ==
    CASE v.k = "list" -> IF Len(v.l) > 0 THEN Ok(v.l[1]) ELSE Raise("IndexError")
      [] v.k = "str" -> IF Len(v.s) > 0 THEN Ok(S(Char(v.s, 1))) ELSE Raise("IndexError")
      [] v.k = "dict" -> Raise("KeyError")
      [] OTHER -> Raise("TypeError")

\* for x in v: the values the loop sees.  A mapping is iterated by its keys;
\* the model holds mappings without their key order, so only mappings of at
\* most one key are iterated.
Iterate(v) ==
    CASE v.k = "list" -> Ok(v.l)
      [] v.k = "str" -> Ok([i \in 1..Len(v.s) |-> S(Char(v.s, i))])
      [] v.k = "dict" /\ Cardinality(DOMAIN v.d) = 0 -> Ok(<<>>)
      [] v.k = "dict" /\ Cardinality(DOMAIN v.d) = 1 -> Ok(<<S(CHOOSE x \in DOMAIN v.d : TRUE)>>)
      [] v.k \in {"null", "bool", "int"} -> Raise("TypeError")

\* int(v)
IntOf(v) ==
    CASE v.k = "int" -> Ok(v.n)
      [] v.k = "bool" -> Ok(IF v.b THEN 1 ELSE 0)
      [] v.k = "str" -> IF IsDecimal(v.s) THEN Ok(ParseNat(v.s, 1, 0)) ELSE Raise("ValueError")
      [] OTHER -> Raise("TypeError")

\* v > 0
GreaterThanZero(v) ==
    CASE v.k = "int" -> Ok(v.n > 0)
      [] v.k = "bool" -> Ok(v.b)
      [] OTHER -> Raise("TypeError")

\* "x" * n
RECURSIVE Repeat(_, _)
Repeat(s, n) == IF n <= 0 THEN "" ELSE s \o Repeat(s, n - 1)

\* isinstance(opt, dict) and opt.get("type") == "null"
IsNullTyped(opt) == IsDict(opt) /\ Get(opt, "type", Null) = S("null")

\* ------------------------------------------------------------------------
\* Paths: the sequence of a path's components below the repository root.
\* ------------------------------------------------------------------------
SCHEMAS_DIR == <<"schemas">>
parent(path) == SubSeq(path, 1, Len(path) - 1)
name(path) == path[Len(path)]

RECURSIVE Normalize(_, _)
\* Path.resolve(): "." and empty components dropped, ".." climbs (the root
\* is its own parent).
Normalize(done, rest) ==
    IF rest = <<>> THEN done
    ELSE IF Head(rest) \in {"", "."} THEN Normalize(done, Tail(rest))
    ELSE IF Head(rest) = ".." THEN Normalize(IF done = <<>> THEN <<>> ELSE parent(done), Tail(rest))
    ELSE Normalize(Append(done, Head(rest)), Tail(rest))

\* (base_dir / ref).resolve(); joining an absolute ref discards base_dir.
resolve_ref(ref, base_dir) ==
    IF StartsWith(ref, "/") THEN Normalize(<<>>, Split(ref, "/"))
    ELSE Normalize(base_dir, Split(ref, "/"))

RECURSIVE PathLess(_, _)
PathLess(p, q) ==
    IF q = <<>> THEN FALSE
    ELSE IF p = <<>> THEN TRUE
    ELSE IF Head(p) = Head(q) THEN PathLess(Tail(p), Tail(q))
    ELSE StrLess(Head(p), Head(q))

RECURSIVE Insert(_, _)
Insert(sortedSeq, p) ==
    IF sortedSeq = <<>> THEN <<p>>
    ELSE IF PathLess(p, Head(sortedSeq)) THEN <<p>> \o sortedSeq
    ELSE <<Head(sortedSeq)>> \o Insert(Tail(sortedSeq), p)
RECURSIVE sorted(_)
sorted(paths) == IF paths = <<>> THEN <<>> ELSE Insert(sorted(Tail(paths)), Head(paths))

\* Path.glob("*StreamingEvent.json") on a directory: its own entries only.
GlobMatches(path) == parent(path) = SCHEMAS_DIR /\ EndsWith(name(path), "StreamingEvent.json")

\* ------------------------------------------------------------------------
\* State
\* ------------------------------------------------------------------------
VARIABLES
    files,          \* the schema documents on disk: resolved path -> parsed JSON
    allowFile,      \* the JSON array in ALLOWED_TYPES_PATH
    pc,             \* where main / generate_events stands
    allowed_types,  \* generate_events: the allow-list as read
    discovered,     \* the order in which glob yielded the event schema files
    queue,          \* the sorted paths the for loop has still to take
    cur,            \* the path the for loop is at
    SCHEMA_CACHE,
    SAMPLE_CACHE,
    heap,           \* the dicts built so far, by identity: id -> (key -> value)
    stack,          \* the active calls of sample_from_schema, outermost first
    ret,            \* the value the call that just ended returned, or NoRet
    type_to_event,
    events,         \* the list generate_events returned
    exc,            \* the exception that ended the run, or "none"
    message,        \* the text of a SystemExit
    where,          \* the function (for sample_from_schema, the rule) that raised exc
    jsonl,          \* what has been written to stream_all.jsonl
    sse,            \* what has been written to stream_all.sse
    wi,             \* main: the position of the write loop in events
    refSampled,     \* resolved path -> how often line 39 recursed into it
    seenTypes,      \* the type strings line 142 has read off a sampled event
    run,            \* which run of the program this is (1, or 2 after a second start)
    first           \* the outcome of run 1, once a second run has been started

vars == <<files, allowFile, pc, allowed_types, discovered, queue, cur, SCHEMA_CACHE,
          SAMPLE_CACHE, heap, stack, ret, type_to_event, events, exc, message, where, jsonl,
          sse, wi, refSampled, seenTypes, run, first>>

NoRet == [k |-> "noret"]
NoPath == <<>>
DepthLimit == 40

\* One call of sample_from_schema(schema, base_dir, depth).  pc is "enter"
\* until the rule that applies has run, then the place the call waits at for
\* the call it made; it, i and acc are the loop the call is in (the sequence
\* iterated, the position, the value under construction), path the resolved
\* $ref, vals the branch results of an allOf in the order they came back.
Frame(schema, base_dir, depth) ==
    [schema |-> schema, base_dir |-> base_dir, depth |-> depth, pc |-> "enter",
     it |-> <<>>, i |-> 0, acc |-> Null, path |-> NoPath, vals |-> <<>>]

Top == stack[Len(stack)]

\* `return v` from the innermost call.
Return(v, h) ==
    /\ stack' = SubSeq(stack, 1, Len(stack) - 1)
    /\ ret' = v
    /\ heap' = h
    /\ pc' = IF Len(stack) = 1 THEN "index" ELSE "call"
    /\ UNCHANGED <<exc, message, where>>

\* The innermost call, now in state f, calls sample_from_schema again.
Call(f, callee, h) ==
    /\ stack' = Append([stack EXCEPT ![Len(stack)] = f], callee)
    /\ ret' = NoRet
    /\ heap' = h
    /\ pc' = "call"
    /\ UNCHANGED <<exc, message, where>>

\* An exception nothing catches: it unwinds every call and ends the run.
Throw(e, at) ==
    /\ stack' = <<>>
    /\ ret' = NoRet
    /\ heap' = heap
    /\ pc' = "raised"
    /\ exc' = e
    /\ message' = ""
    /\ where' = at

CachesUnchanged == UNCHANGED <<SCHEMA_CACHE, SAMPLE_CACHE, refSampled>>
DriverUnchanged == UNCHANGED <<files, allowFile, allowed_types, discovered, queue, cur,
                               type_to_event, events, jsonl, sse, wi, seenTypes, run, first>>

\* ------------------------------------------------------------------------
\* sample_from_schema
\* ------------------------------------------------------------------------
DepthExceededLate(depth) == depth > DepthLimit + 1
DepthExceeded(depth) == depth > DepthLimit

\* Which rule of sample_from_schema a call runs: the first whose test holds.
Rule(f) ==
    IF DepthExceeded(f.depth) THEN "depth"
    ELSE IF ~IsDict(f.schema) THEN "literal"
    ELSE IF Has(f.schema, "$ref") THEN "ref"
    ELSE IF Has(f.schema, "const") THEN "const"
    ELSE IF Has(f.schema, "enum") THEN "enum"
    ELSE IF Has(f.schema, "oneOf") THEN "oneOf"
    ELSE IF Has(f.schema, "anyOf") THEN "anyOf"
    ELSE IF Has(f.schema, "allOf") THEN "allOf"
    ELSE LET schema_type == Get(f.schema, "type", Null) IN
         IF schema_type = S("object") \/ Has(f.schema, "properties") THEN "object"
         ELSE IF schema_type = S("array") THEN "array"
         ELSE IF schema_type \in {S("string"), S("integer"), S("number"), S("boolean"), S("null")}
              THEN "primitive"
         ELSE "fallback"

Entering(rule) == pc = "call" /\ ret = NoRet /\ Top.pc = "enter" /\ Rule(Top) = rule
Resuming(at) == pc = "call" /\ ret # NoRet /\ Top.pc \in at

\* load_schema(path): the parsed document, or the failure of path.open().
load_schema(path) ==
    IF path \in DOMAIN SCHEMA_CACHE THEN Ok(SCHEMA_CACHE[path])
    ELSE IF path \in DOMAIN files THEN Ok(files[path])
    ELSE Raise("FileNotFoundError")
SchemaCacheAfterLoad(path) ==
    IF path \in DOMAIN SCHEMA_CACHE \/ path \notin DOMAIN files THEN SCHEMA_CACHE
    ELSE (path :> files[path]) @@ SCHEMA_CACHE

\* lines 29-30
SampleDepthGuard ==
    /\ Entering("depth")
    /\ Return(Null, heap)
    /\ CachesUnchanged /\ DriverUnchanged

\* lines 31-32
SampleLiteral ==
    /\ Entering("literal")
    /\ Return(Top.schema, heap)
    /\ CachesUnchanged /\ DriverUnchanged

\* SAMPLE_CACHE[ref_path] = value
CacheStore(cache, path, value) == (path :> value) @@ cache

\* lines 34-39: the cache lookup and, on a miss, the recursive call
SampleRef ==
    /\ Entering("ref")
    /\ LET ref == Top.schema.d["$ref"] IN
       IF ref.k # "str"
       THEN Throw("TypeError", "ref") /\ CachesUnchanged
       ELSE \E ref_path \in {resolve_ref(ref.s, Top.base_dir)} :
            LET ref_schema == load_schema(ref_path)
            IN IF ref_path \in DOMAIN SAMPLE_CACHE
               THEN Return(SAMPLE_CACHE[ref_path], heap) /\ CachesUnchanged
               ELSE IF ~ref_schema.ok
               THEN Throw(ref_schema.exc, "ref") /\ CachesUnchanged
               ELSE /\ Call([Top EXCEPT !.pc = "ref", !.path = ref_path],
                            Frame(ref_schema.v, parent(ref_path), Top.depth + 1), heap)
                    /\ SCHEMA_CACHE' = SchemaCacheAfterLoad(ref_path)
                    /\ refSampled' = (ref_path :> (IF ref_path \in DOMAIN refSampled
                                                   THEN refSampled[ref_path] + 1 ELSE 1)) @@ refSampled
                    /\ UNCHANGED SAMPLE_CACHE
    /\ DriverUnchanged

\* lines 40-41
SampleRefReturn ==
    /\ Resuming({"ref"})
    /\ SAMPLE_CACHE' = CacheStore(SAMPLE_CACHE, Top.path, ret)
    /\ Return(ret, heap)
    /\ UNCHANGED <<SCHEMA_CACHE, refSampled>> /\ DriverUnchanged

\* lines 43-44
SampleConst ==
    /\ Entering("const")
    /\ Return(Top.schema.d["const"], heap)
    /\ CachesUnchanged /\ DriverUnchanged

\* lines 45-46
SampleEnum ==
    /\ Entering("enum")
    /\ LET first_value == Subscript0(Top.schema.d["enum"]) IN
       IF first_value.ok THEN Return(first_value.v, heap) ELSE Throw(first_value.exc, "enum")
    /\ CachesUnchanged /\ DriverUnchanged

\* The first option the oneOf loop does not skip, 0 if it skips them all.
FirstNonNullTyped(options) ==
    IF \E j \in 1..Len(options) : ~IsNullTyped(options[j])
    THEN CHOOSE j \in 1..Len(options) :
            /\ ~IsNullTyped(options[j])
            /\ \A h \in 1..(j - 1) : IsNullTyped(options[h])
    ELSE 0

\* lines 48-55
SampleOneOf ==
    /\ Entering("oneOf")
    /\ LET options == Iterate(Top.schema.d["oneOf"]) IN
       IF ~options.ok THEN Throw(options.exc, "oneOf")
       ELSE LET j == FirstNonNullTyped(options.v) IN
            IF j = 0 THEN Return(Null, heap)
            ELSE Call([Top EXCEPT !.pc = "oneOf"], Frame(options.v[j], Top.base_dir, Top.depth + 1), heap)
    /\ CachesUnchanged /\ DriverUnchanged

\* lines 57-62
SampleAnyOf ==
    /\ Entering("anyOf")
    /\ LET options == Iterate(Top.schema.d["anyOf"])
           first_option == Subscript0(Top.schema.d["anyOf"])
       IN IF ~options.ok THEN Throw(options.exc, "anyOf")
          ELSE IF \E j \in 1..Len(options.v) : IsNullTyped(options.v[j]) THEN Return(Null, heap)
          ELSE IF ~first_option.ok THEN Throw(first_option.exc, "anyOf")
          ELSE Call([Top EXCEPT !.pc = "anyOf"], Frame(first_option.v, Top.base_dir, Top.depth + 1), heap)
    /\ CachesUnchanged /\ DriverUnchanged

\* lines 54 and 62: `return sample_from_schema(...)`
SampleUnionReturn ==
    /\ Resuming({"oneOf", "anyOf"})
    /\ Return(ret, heap)
    /\ CachesUnchanged /\ DriverUnchanged

\* merged after line 68-71 has seen val: the first value that is not None
\* stays, whatever comes later.
MergedKeepLastNonMapping(merged, val) == IF merged = Null \/ ~IsMapping(val) THEN val ELSE merged
Merged(merged, val) == IF merged = Null THEN val ELSE merged

\* The heap after line 70-71: merged.update(val) when both are mappings.
HeapAfterMerge(h, merged, val) ==
    IF merged # Null /\ IsMapping(merged) /\ IsMapping(val)
    THEN [h EXCEPT ![merged.id] = Update(@, h[val.id])]
    ELSE h

\* lines 64-67: the loop over schema["allOf"] starts
SampleAllOf ==
    /\ Entering("allOf")
    /\ LET options == Iterate(Top.schema.d["allOf"]) IN
       IF ~options.ok THEN Throw(options.exc, "allOf")
       ELSE IF options.v = <<>>
       THEN /\ stack' = [stack EXCEPT ![Len(stack)] = [Top EXCEPT !.pc = "allOfDone", !.acc = Null]]
            /\ UNCHANGED <<ret, heap, pc, exc, message, where>>
       ELSE Call([Top EXCEPT !.pc = "allOf", !.it = options.v, !.i = 1, !.acc = Null, !.vals = <<>>],
                 Frame(options.v[1], Top.base_dir, Top.depth + 1), heap)
    /\ CachesUnchanged /\ DriverUnchanged

\* lines 68-71 for the branch that just returned, then the next branch
SampleAllOfMerge ==
    /\ Resuming({"allOf"})
    /\ LET merged == Merged(Top.acc, ret)
           h == HeapAfterMerge(heap, Top.acc, ret)
           f == [Top EXCEPT !.acc = merged, !.vals = Append(@, ret), !.i = @ + 1]
       IN IF Top.i < Len(Top.it)
          THEN Call(f, Frame(Top.it[Top.i + 1], Top.base_dir, Top.depth + 1), h)
          ELSE /\ stack' = [stack EXCEPT ![Len(stack)] = [f EXCEPT !.pc = "allOfDone", !.i = Top.i]]
               /\ ret' = NoRet
               /\ heap' = h
               /\ UNCHANGED <<pc, exc, message, where>>
    /\ CachesUnchanged /\ DriverUnchanged

\* line 72
SampleAllOfReturn ==
    /\ pc = "call" /\ ret = NoRet /\ Top.pc = "allOfDone"
    /\ Return(Top.acc, heap)
    /\ CachesUnchanged /\ DriverUnchanged

\* A dict key: the model's mappings are keyed by strings.
KeyOf(nm) == CASE nm.k = "str" -> nm.s

\* props.get(name, {})
PropertySchema(props, nm) ==
    IF ~IsDict(props) THEN Raise("AttributeError")
    ELSE IF nm.k \in {"list", "dict"} THEN Raise("TypeError")
    ELSE Ok(Get(props, KeyOf(nm), D(EmptyMap)))

\* lines 75-79: obj = {} and the first required member; lines 80-82 when
\* nothing is required (either way a new empty dict is returned)
SampleObject ==
    /\ Entering("object")
    /\ LET props == Get(Top.schema, "properties", D(EmptyMap))
           required == Iterate(Get(Top.schema, "required", L(<<>>)))
           obj == Obj(Len(heap) + 1)
           h == Append(heap, EmptyMap)
       IN IF ~required.ok THEN Throw(required.exc, "object")
          ELSE IF required.v = <<>> THEN Return(obj, h)
          ELSE LET sub == PropertySchema(props, required.v[1]) IN
               IF ~sub.ok THEN Throw(sub.exc, "object")
               ELSE Call([Top EXCEPT !.pc = "object", !.it = required.v, !.i = 1, !.acc = obj],
                         Frame(sub.v, Top.base_dir, Top.depth + 1), h)
    /\ CachesUnchanged /\ DriverUnchanged

\* line 79: obj[name] = <the value returned>, then the next required member
\* or lines 80-82
SampleObjectAssign ==
    /\ Resuming({"object"})
    /\ LET props == Get(Top.schema, "properties", D(EmptyMap))
           h == [heap EXCEPT ![Top.acc.id] = Put(@, KeyOf(Top.it[Top.i]), ret)]
       IN IF Top.i < Len(Top.it)
          THEN LET sub == PropertySchema(props, Top.it[Top.i + 1]) IN
               IF ~sub.ok THEN Throw(sub.exc, "object")
               ELSE Call([Top EXCEPT !.i = @ + 1], Frame(sub.v, Top.base_dir, Top.depth + 1), h)
          ELSE Return(Top.acc, h)
    /\ CachesUnchanged /\ DriverUnchanged

\* range(min_items) once min_items > 0 has held
RangeLen(min_items) == IF min_items.k = "bool" THEN 1 ELSE min_items.n

\* lines 84-89
SampleArray ==
    /\ Entering("array")
    /\ LET items == Get(Top.schema, "items", D(EmptyMap))
           min_items == Get(Top.schema, "minItems", I(0))
           positive == GreaterThanZero(min_items)
       IN IF ~positive.ok THEN Throw(positive.exc, "array")
          ELSE IF ~positive.v THEN Return(L(<<>>), heap)
          ELSE Call([Top EXCEPT !.pc = "array", !.it = [j \in 1..RangeLen(min_items) |-> items],
                                !.i = 1, !.acc = L(<<>>)],
                    Frame(items, Top.base_dir, Top.depth + 1), heap)
    /\ CachesUnchanged /\ DriverUnchanged

\* line 88: the next element of the comprehension
SampleArrayCollect ==
    /\ Resuming({"array"})
    /\ LET acc == L(Append(Top.acc.l, ret)) IN
       IF Top.i < Len(Top.it)
       THEN Call([Top EXCEPT !.i = @ + 1, !.acc = acc],
                 Frame(Top.it[Top.i + 1], Top.base_dir, Top.depth + 1), heap)
       ELSE Return(acc, heap)
    /\ CachesUnchanged /\ DriverUnchanged

\* lines 91-118: what a schema of a primitive type samples to
Primitive(schema) ==
    LET schema_type == Get(schema, "type", Null).s IN
    CASE schema_type = "string" ->
            IF Has(schema, "default") THEN Ok(schema.d["default"])
            ELSE IF Has(schema, "minLength")
            THEN LET n == IntOf(schema.d["minLength"]) IN
                 IF n.ok THEN Ok(S(Repeat("x", n.v))) ELSE n
            ELSE Ok(S(""))
      [] schema_type = "integer" ->
            IF Has(schema, "default") THEN Ok(schema.d["default"])
            ELSE IF Has(schema, "minimum")
            THEN LET n == IntOf(schema.d["minimum"]) IN
                 IF n.ok THEN Ok(I(n.v)) ELSE n
            ELSE Ok(I(0))
      [] schema_type = "number" ->
            IF Has(schema, "default") THEN Ok(schema.d["default"])
            ELSE IF Has(schema, "minimum") THEN Ok(schema.d["minimum"])
            ELSE Ok(I(0))
      [] schema_type = "boolean" ->
            IF Has(schema, "default") THEN Ok(schema.d["default"]) ELSE Ok(B(FALSE))
      [] schema_type = "null" -> Ok(Null)

SamplePrimitive ==
    /\ Entering("primitive")
    /\ LET value == Primitive(Top.schema) IN
       IF value.ok THEN Return(value.v, heap) ELSE Throw(value.exc, "primitive")
    /\ CachesUnchanged /\ DriverUnchanged

\* lines 120-121
SampleFallback ==
    /\ Entering("fallback")
    /\ Return(Obj(Len(heap) + 1), Append(heap, EmptyMap))
    /\ CachesUnchanged /\ DriverUnchanged

\* ------------------------------------------------------------------------
\* generate_events
\* ------------------------------------------------------------------------
\* The orders in which a directory listing can yield the paths of a set.
Orders(paths) ==
    {f \in [1..Cardinality(paths) -> paths] : \A i, j \in 1..Cardinality(paths) : i # j => f[i] # f[j]}

AsDiscovered(paths) == paths
\* line 136: sorted(SCHEMAS_DIR.glob("*StreamingEvent.json"))
SortedGlob(order) == sorted(order)

\* lines 134-136: the allow-list is read, the event schema files are listed
\* and sorted
Glob ==
    /\ pc = "start"
    /\ allowed_types' = allowFile
    /\ type_to_event' = EmptyMap
    /\ \E order \in Orders({path \in DOMAIN files : GlobMatches(path)}) :
          /\ discovered' = order
          /\ queue' = SortedGlob(order)
    /\ pc' = "loop"
    /\ UNCHANGED <<files, allowFile, cur, SCHEMA_CACHE, SAMPLE_CACHE, heap, stack, ret, events,
                   exc, message, where, jsonl, sse, wi, refSampled, seenTypes, run, first>>

\* lines 137-138: the next file is loaded and sample_from_schema called on it
\* at depth 0
LoadNext ==
    /\ pc = "loop" /\ queue # <<>>
    /\ LET path == Head(queue) IN
       /\ cur' = path
       /\ queue' = Tail(queue)
       /\ SCHEMA_CACHE' = SchemaCacheAfterLoad(path)
       /\ stack' = <<Frame(load_schema(path).v, parent(path), 0)>>
    /\ pc' = "call"
    /\ UNCHANGED <<files, allowFile, allowed_types, discovered, SAMPLE_CACHE, heap, ret,
                   type_to_event, events, exc, message, where, jsonl, sse, wi, refSampled,
                   seenTypes, run, first>>

\* ensure_type_field(event, schema): the heap it leaves, or what it raises
ensure_type_field(h, event, schema) ==
    IF "type" \in DOMAIN h[event.id] THEN Ok(h)
    ELSE IF ~IsDict(schema) THEN Raise("AttributeError")
    ELSE LET props == Get(schema, "properties", D(EmptyMap)) IN
         IF ~IsDict(props) THEN Raise("AttributeError")
         ELSE LET type_schema == Get(props, "type", D(EmptyMap)) IN
              IF IsDict(type_schema) /\ Has(type_schema, "enum")
              THEN LET first_value == Subscript0(type_schema.d["enum"]) IN
                   IF first_value.ok
                   THEN Ok([h EXCEPT ![event.id] = Put(@, "type", first_value.v)])
                   ELSE first_value
              ELSE Ok(h)

\* type_to_event.setdefault(event_type, event)
SetDefault(index, key, value) == IF key \in DOMAIN index THEN index ELSE Put(index, key, value)

InList(v, list) == \E i \in 1..Len(list) : list[i] = v

\* lines 139-144, for the sample line 138 returned
IndexEvent ==
    /\ pc = "index"
    /\ LET event == IF IsMapping(ret) THEN ret ELSE Obj(Len(heap) + 1)
           h0 == IF IsMapping(ret) THEN heap ELSE Append(heap, EmptyMap)
           ensured == ensure_type_field(h0, event, SCHEMA_CACHE[cur])
       IN IF ~ensured.ok
          THEN /\ Throw(ensured.exc, "ensure_type_field")
               /\ UNCHANGED <<type_to_event, seenTypes>>
          ELSE LET event_type == IF "type" \in DOMAIN ensured.v[event.id]
                                 THEN ensured.v[event.id]["type"] ELSE Null
               IN /\ heap' = ensured.v
                  /\ type_to_event' = IF event_type.k = "str" /\ InList(event_type.s, allowed_types)
                                      THEN SetDefault(type_to_event, event_type.s, event)
                                      ELSE type_to_event
                  /\ seenTypes' = IF event_type.k = "str" THEN seenTypes \cup {event_type.s}
                                  ELSE seenTypes
                  /\ ret' = NoRet
                  /\ pc' = "loop"
                  /\ UNCHANGED <<stack, exc, message, where>>
    /\ UNCHANGED <<files, allowFile, allowed_types, discovered, queue, cur, SCHEMA_CACHE,
                   SAMPLE_CACHE, events, jsonl, sse, wi, refSampled, run, first>>

RECURSIVE Join(_, _)
\* sep.join(strings)
Join(strings, sep) ==
    IF strings = <<>> THEN ""
    ELSE IF Len(strings) = 1 THEN strings[1]
    ELSE strings[1] \o sep \o Join(Tail(strings), sep)

RECURSIVE Filter(_, _)
Filter(list, index) ==
    IF list = <<>> THEN <<>>
    ELSE (IF Head(list) \in DOMAIN index THEN <<>> ELSE <<Head(list)>>) \o Filter(Tail(list), index)

MissingUpToFirst(allowed, index) ==
    IF Filter(allowed, index) = <<>> THEN <<>> ELSE <<Filter(allowed, index)[1]>>
\* line 146: [t for t in allowed_types if t not in type_to_event]
Missing(allowed, index) == Filter(allowed, index)

\* lines 146-148, once the for loop has ended
CheckMissing ==
    /\ pc = "loop" /\ queue = <<>>
    /\ LET missing == Missing(allowed_types, type_to_event) IN
       IF missing # <<>>
       THEN /\ pc' = "raised"
            /\ exc' = "SystemExit"
            /\ message' = "missing schemas for types: " \o Join(missing, ", ")
            /\ where' = "generate_events"
       ELSE /\ pc' = "assemble"
            /\ UNCHANGED <<exc, message, where>>
    /\ UNCHANGED <<files, allowFile, allowed_types, discovered, queue, cur, SCHEMA_CACHE,
                   SAMPLE_CACHE, heap, stack, ret, type_to_event, events, jsonl, sse, wi,
                   refSampled, seenTypes, run, first>>

RECURSIVE Stamp(_, _, _)
\* lines 152-155: event["sequence_number"] = seq for each event in turn
Stamp(h, list, seq) ==
    IF seq > Len(list) THEN h
    ELSE Stamp([h EXCEPT ![list[seq].id] = Put(@, "sequence_number", I(seq))], list, seq + 1)

\* lines 150-156: the event list in allow-list order, stamped and returned
Assemble ==
    /\ pc = "assemble"
    /\ LET list == [i \in 1..Len(allowed_types) |-> type_to_event[allowed_types[i]]] IN
       /\ events' = list
       /\ heap' = Stamp(heap, list, 1)
    /\ wi' = 1
    /\ pc' = "write"
    /\ UNCHANGED <<files, allowFile, allowed_types, discovered, queue, cur, SCHEMA_CACHE,
                   SAMPLE_CACHE, stack, ret, type_to_event, exc, message, where, jsonl, sse,
                   refSampled, seenTypes, run, first>>

\* ------------------------------------------------------------------------
\* main: the two fixture files
\* ------------------------------------------------------------------------
\* json.dumps of one character of a string (ensure_ascii; the model's strings
\* are ASCII)
EscapeChar(c) ==
    CASE c = "\"" -> "\\\""
      [] c = "\\" -> "\\\\"
      [] c = "\n" -> "\\n"
      [] c = "\r" -> "\\r"
      [] c = "\t" -> "\\t"
      [] OTHER -> c
RECURSIVE EscapeFrom(_, _)
EscapeFrom(s, i) == IF i > Len(s) THEN "" ELSE EscapeChar(Char(s, i)) \o EscapeFrom(s, i + 1)
Quote(s) == "\"" \o EscapeFrom(s, 1) \o "\""

RECURSIVE SortedKeys(_)
\* sort_keys=True
SortedKeys(keys) ==
    IF keys = {} THEN <<>>
    ELSE LET least == CHOOSE a \in keys : \A b \in keys \ {a} : StrLess(a, b)
         IN <<least>> \o SortedKeys(keys \ {least})

RECURSIVE dumps(_, _, _)
RECURSIVE DumpItems(_, _, _, _)
RECURSIVE DumpMembers(_, _, _, _, _)
\* json.dumps(v, separators=(",", ":"), sort_keys=True): the text, or
\* ValueError when a mapping contains itself.  `open` are the mappings being
\* written around v.
dumps(v, h, open) ==
    CASE v.k = "null" -> Ok("null")
      [] v.k = "bool" -> Ok(IF v.b THEN "true" ELSE "false")
      [] v.k = "int" -> Ok(IntStr(v.n))
      [] v.k = "str" -> Ok(Quote(v.s))
      [] v.k = "list" ->
            LET body == DumpItems(v.l, 1, h, open) IN
            IF body.ok THEN Ok("[" \o body.v \o "]") ELSE body
      [] v.k = "obj" ->
            IF v.id \in open THEN Raise("ValueError")
            ELSE LET body == DumpMembers(SortedKeys(DOMAIN h[v.id]), 1, h[v.id], h, open \cup {v.id}) IN
                 IF body.ok THEN Ok("{" \o body.v \o "}") ELSE body
DumpItems(list, i, h, open) ==
    IF i > Len(list) THEN Ok("")
    ELSE LET item == dumps(list[i], h, open)
             rest == DumpItems(list, i + 1, h, open)
         IN IF ~item.ok THEN item
            ELSE IF ~rest.ok THEN rest
            ELSE Ok(item.v \o (IF i < Len(list) THEN "," ELSE "") \o rest.v)
DumpMembers(keys, i, map, h, open) ==
    IF i > Len(keys) THEN Ok("")
    ELSE LET item == dumps(map[keys[i]], h, open)
             rest == DumpMembers(keys, i + 1, map, h, open)
         IN IF ~item.ok THEN item
            ELSE IF ~rest.ok THEN rest
            ELSE Ok(Quote(keys[i]) \o ":" \o item.v \o (IF i < Len(keys) THEN "," ELSE "") \o rest.v)

\* bool(v)
Truthy(v) ==
    CASE v.k = "null" -> FALSE
      [] v.k = "bool" -> v.b
      [] v.k = "int" -> v.n # 0
      [] v.k = "str" -> v.s # ""
      [] v.k = "list" -> v.l # <<>>
\* f"{v}" of a scalar
Format(v) ==
    CASE v.k = "str" -> v.s
      [] v.k = "int" -> IntStr(v.n)
      [] v.k = "bool" -> IF v.b THEN "True" ELSE "False"

\* lines 167-173 for one event
WriteEvent ==
    /\ pc = "write" /\ wi <= Len(events)
    /\ LET event == events[wi]
           line == dumps(event, heap, {})
           event_type == IF "type" \in DOMAIN heap[event.id] THEN heap[event.id]["type"] ELSE S("")
       IN IF ~line.ok
          THEN /\ Throw(line.exc, "main")
               /\ UNCHANGED <<jsonl, sse, wi>>
          ELSE /\ jsonl' = jsonl \o line.v \o "\n"
               /\ sse' = sse \o (IF Truthy(event_type) THEN "event: " \o Format(event_type) \o "\n" ELSE "")
                             \o "data: " \o line.v \o "\n\n"
               /\ wi' = wi + 1
               /\ UNCHANGED <<pc, heap, stack, ret, exc, message, where>>
    /\ UNCHANGED <<files, allowFile, allowed_types, discovered, queue, cur, SCHEMA_CACHE,
                   SAMPLE_CACHE, type_to_event, events, refSampled, seenTypes, run, first>>

\* line 174, and the files are closed
WriteDone ==
    /\ pc = "write" /\ wi > Len(events)
    /\ sse' = sse \o "data: [DONE]\n\n"
    /\ pc' = "done"
    /\ UNCHANGED <<files, allowFile, allowed_types, discovered, queue, cur, SCHEMA_CACHE,
                   SAMPLE_CACHE, heap, stack, ret, type_to_event, events, exc, message, where,
                   jsonl, wi, refSampled, seenTypes, run, first>>

\* ------------------------------------------------------------------------
\* Inputs: schema directories and allow-lists
\* ------------------------------------------------------------------------
MaxAllow == 2
Types == {"a", "b"}
AllowLists == UNION {[1..n -> Types] : n \in 0..MaxAllow}

PathA == <<"schemas", "AStreamingEvent.json">>
PathB == <<"schemas", "BStreamingEvent.json">>
PathX == <<"schemas", "X.json">>
PathY == <<"schemas", "sub", "Y.json">>

RefTo(ref) == D("$ref" :> S(ref))
Const(v) == D([const |-> v])
Object(required, props) == D([type |-> S("object"), required |-> L(required), properties |-> D(props)])
\* {"type": "object", "required": ["type"], "properties": {"type": {"const": t}}}
EventOf(t) == Object(<<S("type")>>, [type |-> Const(S(t))])
AllOf(branches) == D([allOf |-> L(branches)])

\* An event schema that requires a member holding a reference to the
\* event schema itself.
SelfCycle == Object(<<S("type"), S("x")>>, [type |-> Const(S("a")), x |-> RefTo("AStreamingEvent.json")])
\* The type is declared by an enum and not required.
EnumTyped == D([type |-> S("object"), properties |-> D([type |-> D([enum |-> L(<<S("a"), S("b")>>)])])])
\* One required member for every rule of the sampler.
EveryRule ==
    Object(<<S("type"), S("s"), S("d"), S("n"), S("m"), S("f"), S("g"), S("t"), S("z"), S("arr"),
             S("none"), S("u"), S("v"), S("w"), S("e"), S("lit"), S("q"), S("o")>>,
           [type |-> Const(S("a")),
            s |-> D([type |-> S("string"), minLength |-> I(2)]),
            d |-> D([type |-> S("string"), default |-> S("dflt")]),
            n |-> D([type |-> S("integer"), minimum |-> I(3)]),
            m |-> D([type |-> S("integer")]),
            f |-> D([type |-> S("number"), minimum |-> I(1)]),
            g |-> D([type |-> S("number")]),
            t |-> D([type |-> S("boolean")]),
            z |-> D([type |-> S("null")]),
            arr |-> D([type |-> S("array"), minItems |-> I(2), items |-> D([type |-> S("integer")])]),
            none |-> D([type |-> S("array")]),
            u |-> D([oneOf |-> L(<<D([type |-> S("null")]), D([type |-> S("string")])>>)]),
            v |-> D([anyOf |-> L(<<D([type |-> S("string")]), D([type |-> S("null")])>>)]),
            w |-> D([anyOf |-> L(<<Const(I(1)), D([type |-> S("string")])>>)]),
            e |-> D([enum |-> L(<<S("first"), S("second")>>)]),
            lit |-> I(7),
            o |-> D([properties |-> D([y |-> Const(I(1))]), additionalProperties |-> B(TRUE)])])

\* The same type as EventOf("a"), with another member.
EventWithP(t) == Object(<<S("type"), S("p")>>, [type |-> Const(S(t)), p |-> Const(I(2))])
TypeOnly(t) == D([required |-> L(<<S("type")>>), properties |-> D([type |-> Const(S(t))])])

DocsA == {EventOf("a"), RefTo("X.json"), SelfCycle}
DocsRules == {EnumTyped, EveryRule}
DocsB == {EventOf("b"), EventWithP("a"), AllOf(<<RefTo("X.json"), TypeOnly("b")>>)}
DocsX == {EventOf("a"), RefTo("sub/Y.json")}
DocsY == {RefTo("../X.json")}
\* X.json requires a member that refers back to X.json by way of "..".
CycleAtX == Object(<<S("type"), S("x")>>, [type |-> Const(S("a")), x |-> RefTo("../schemas/X.json")])

Directory(a, b, x, y) == (PathA :> a) @@ (PathB :> b) @@ (PathX :> x) @@ (PathY :> y)

\* Every combination of the documents above with every allow-list, the
\* same without a second event schema file, and the documents that go
\* through every rule beside a plain second event schema.
CoreInputs ==
    {[files |-> Directory(a, b, x, y), allow |-> al] :
        a \in DocsA, b \in DocsB, x \in DocsX, y \in DocsY, al \in AllowLists}
    \cup {[files |-> (PathA :> a) @@ (PathX :> EventOf("a")), allow |-> al] :
            a \in DocsA \cup DocsRules, al \in AllowLists}
    \cup {[files |-> (PathA :> a) @@ (PathB :> EventOf("b")), allow |-> al] :
            a \in DocsRules, al \in AllowLists}
    \cup {[files |-> Directory(RefTo("X.json"), EventOf("b"), CycleAtX, RefTo("../X.json")), allow |-> al] :
            al \in AllowLists}
    \cup {[files |-> Directory(EventOf("a"), RefTo("sub/Y.json"), EventOf("a"), RefTo("../X.json")),
            allow |-> al] : al \in AllowLists}

\* allOf over every pair and triple of these branches.
Branches == {Const(S("s")), Const(S("t")), D([type |-> S("null")]), TypeOnly("b"),
             Object(<<S("type"), S("k")>>, [type |-> Const(S("a")), k |-> Const(I(1))]),
             RefTo("X.json")}
AllOfDocs == {AllOf(<<p, q>>) : p, q \in Branches} \cup {AllOf(<<p, q, r>>) : p, q, r \in Branches}
AllOfInputs ==
    {[files |-> Directory(EventOf("a"), b, EventOf("a"), RefTo("../X.json")), allow |-> <<"a", "b">>] :
        b \in AllOfDocs}

\* Sub-schemas whose keywords hold values of the wrong shape, each as a
\* required member of an event schema, and documents that are not mappings.
Malformed ==
    {D([enum |-> v]) : v \in {L(<<>>), I(5), Null, S(""), S("ab"), D(EmptyMap)}}
    \cup {D([oneOf |-> v]) : v \in {I(5), Null, L(<<>>), S("ab"), L(<<D([type |-> S("null")])>>)}}
    \cup {D([anyOf |-> v]) : v \in {L(<<>>), I(5), S(""), S("ab"), D([k |-> Null])}}
    \cup {D([allOf |-> v]) : v \in {I(5), Null, L(<<>>), S("ab")}}
    \cup {D([type |-> S("object"), properties |-> v, required |-> L(<<S("m")>>)]) : v \in {I(5), L(<<>>), Null}}
    \cup {D([type |-> S("object"), required |-> v]) : v \in {I(5), Null, L(<<L(<<>>)>>), S("ab")}}
    \cup {D([type |-> S("array"), minItems |-> v]) : v \in {S("a"), Null, B(TRUE), L(<<>>)}}
    \cup {D([type |-> S("string"), minLength |-> v]) : v \in {S("abc"), S("3"), Null, I(-1), B(TRUE), L(<<>>)}}
    \cup {D([type |-> S("integer"), minimum |-> v]) : v \in {Null, S("zz"), S("7"), L(<<>>)}}
    \cup {D([type |-> S("number"), minimum |-> v]) : v \in {Null, S("zz")}}
    \cup {D("$ref" :> v) : v \in {I(5), Null, S("Z.json")}}
    \cup {D([type |-> v]) : v \in {I(5), L(<<S("string"), S("null")>>), S("nonsense")}}
MalformedInputs ==
    {[files |-> (PathA :> Object(<<S("type"), S("m")>>, [type |-> Const(S("a")), m |-> sub]))
                @@ (PathB :> EventOf("b")),
      allow |-> <<"a">>] : sub \in Malformed}
    \cup {[files |-> (PathA :> doc), allow |-> <<"a">>] :
            doc \in {L(<<>>), I(5), D([properties |-> I(5)]),
                     D([properties |-> D([type |-> D([enum |-> L(<<>>)])])])}}

\* A type string that holds a line break.
LineBreakInputs ==
    {[files |-> (PathA :> EventOf(t)) @@ (PathB :> EventOf("b")), allow |-> al] :
        t \in {"a\ndata: 1", "a\n"}, al \in {<<t>> : t \in {"a\ndata: 1", "a\n"}}}

Inputs == CoreInputs \cup AllOfInputs \cup MalformedInputs \cup LineBreakInputs

\* ------------------------------------------------------------------------
\* The program
\* ------------------------------------------------------------------------
NoOutcome == [t |-> "none"]

Fresh ==
    /\ pc = "start"
    /\ allowed_types = <<>>
    /\ discovered = <<>>
    /\ queue = <<>>
    /\ cur = NoPath
    /\ SCHEMA_CACHE = EmptyMap
    /\ SAMPLE_CACHE = EmptyMap
    /\ heap = <<>>
    /\ stack = <<>>
    /\ ret = NoRet
    /\ type_to_event = EmptyMap
    /\ events = <<>>
    /\ exc = "none"
    /\ message = ""
    /\ where = "none"
    /\ jsonl = ""
    /\ sse = ""
    /\ wi = 0
    /\ refSampled = EmptyMap
    /\ seenTypes = {}

Init ==
    /\ \E input \in Inputs : files = input.files /\ allowFile = input.allow
    /\ Fresh
    /\ run = 1
    /\ first = NoOutcome

Sample ==
    \/ SampleDepthGuard
    \/ SampleLiteral
    \/ SampleRef
    \/ SampleRefReturn
    \/ SampleConst
    \/ SampleEnum
    \/ SampleOneOf
    \/ SampleAnyOf
    \/ SampleUnionReturn
    \/ SampleAllOf
    \/ SampleAllOfMerge
    \/ SampleAllOfReturn
    \/ SampleObject
    \/ SampleObjectAssign
    \/ SampleArray
    \/ SampleArrayCollect
    \/ SamplePrimitive
    \/ SampleFallback

Next ==
    \/ Glob
    \/ LoadNext
    \/ Sample
    \/ IndexEvent
    \/ CheckMissing
    \/ Assemble
    \/ WriteEvent
    \/ WriteDone

Spec == Init /\ [][Next]_vars

\* The interpreter runs a call of sample_from_schema on: while the call has
\* a step to take, it takes it.
FairSpec == Spec /\ WF_vars(Sample)

Finished == pc \in {"done", "raised"}
\* generate_events has returned its list (line 156).
Returned == wi >= 1

\* ------------------------------------------------------------------------
\* A second run of the program on the same files, from fresh caches
\* ------------------------------------------------------------------------
DeepFuel == 3
RECURSIVE Deep(_, _, _)
\* The value v stands for in heap h, mappings followed to `fuel` levels.
Deep(v, h, fuel) ==
    CASE v.k = "obj" ->
            IF fuel = 0 THEN [k |-> "cut"]
            ELSE [k |-> "map", m |-> [key \in DOMAIN h[v.id] |-> Deep(h[v.id][key], h, fuel - 1)]]
      [] v.k = "list" -> [k |-> "list", l |-> [j \in 1..Len(v.l) |-> Deep(v.l[j], h, fuel)]]
      [] OTHER -> v

\* What a run ended with: the event list with its contents and the files
\* written, or the failure.
Outcome ==
    [exc |-> exc, message |-> message, where |-> where,
     events |-> [j \in 1..Len(events) |-> Deep(events[j], heap, DeepFuel)],
     jsonl |-> jsonl, sse |-> sse]

Restart ==
    /\ run = 1 /\ Finished
    /\ first' = [outcome |-> Outcome, discovered |-> discovered]
    /\ run' = 2
    /\ pc' = "start"
    /\ allowed_types' = <<>>
    /\ discovered' = <<>>
    /\ queue' = <<>>
    /\ cur' = NoPath
    /\ SCHEMA_CACHE' = EmptyMap
    /\ SAMPLE_CACHE' = EmptyMap
    /\ heap' = <<>>
    /\ stack' = <<>>
    /\ ret' = NoRet
    /\ type_to_event' = EmptyMap
    /\ events' = <<>>
    /\ exc' = "none"
    /\ message' = ""
    /\ where' = "none"
    /\ jsonl' = ""
    /\ sse' = ""
    /\ wi' = 0
    /\ refSampled' = EmptyMap
    /\ seenTypes' = {}
    /\ UNCHANGED <<files, allowFile>>

NextReorder == Next \/ Restart
SpecReorder == Init /\ [][NextReorder]_vars

\* ------------------------------------------------------------------------
\* Claims
\* ------------------------------------------------------------------------
Member(event, key) == heap[event.id][key]
HasMember(event, key) == key \in DOMAIN heap[event.id]

\* C1: whenever generate_events returns for a non-empty allow-list of length
\* N, the sequence_number of the event at position i of the returned list is
\* i, for every i in 1..N.
C1_SequenceNumbersContiguous ==
    (Returned /\ allowed_types # <<>>) =>
        /\ Len(events) = Len(allowed_types)
        /\ \A i \in 1..Len(events) : Member(events[i], "sequence_number") = I(i)

\* C2: whenever generate_events returns, the list has the length of the
\* allow-list and the event at position i carries the type allowed_types[i].
C2_TypesInAllowListOrder ==
    Returned =>
        /\ Len(events) = Len(allowed_types)
        /\ \A i \in 1..Len(events) :
              HasMember(events[i], "type") /\ Member(events[i], "type") = S(allowed_types[i])

\* The allow-listed types that line 142 never read off a sampled event.
Unsampled == SelectSeq(allowed_types, LAMBDA t : t \notin seenTypes)

\* C3: generate_events returns a list only if every allow-listed type has an
\* indexed event; if one has none once all files are indexed the run ends in
\* SystemExit, and its message names, in allow-list order, exactly the
\* allow-listed types for which no event was sampled.
C3_MissingTypesAbort ==
    /\ (pc = "assemble" \/ Returned) => \A i \in 1..Len(allowed_types) : allowed_types[i] \in DOMAIN type_to_event
    /\ (pc = "loop" /\ queue = <<>>) =>
          \A i \in 1..Len(allowed_types) : allowed_types[i] \in DOMAIN type_to_event <=> allowed_types[i] \in seenTypes
    /\ exc = "SystemExit" =>
          /\ Unsampled # <<>>
          /\ message = "missing schemas for types: " \o Join(Unsampled, ", ")
C3_Witness ==
    /\ exc = "SystemExit"
    /\ \E i \in 1..Len(allowed_types) : allowed_types[i] \in seenTypes
    /\ \E i \in 1..Len(allowed_types) : allowed_types[i] \notin seenTypes

\* Every active call runs at the depth of its position on the stack (the
\* outermost at 0, each call one deeper than its caller), none deeper than
\* DepthLimit + 1, and none that was entered deeper than DepthLimit has
\* made a call.
DepthBounded ==
    \A i \in 1..Len(stack) :
        /\ stack[i].depth = i - 1
        /\ stack[i].depth <= DepthLimit + 1
        /\ i < Len(stack) => stack[i].depth <= DepthLimit

\* C4: sample_from_schema terminates on every schema directory, reference
\* cycles included: calls are made at depth + 1, a call entered above depth
\* 40 returns without recursing, no call runs above depth 41, and whenever
\* sample_from_schema is running, the outermost call comes to its end (it
\* returns to generate_events, or an exception ends the run).
C4_SamplerTerminates == []DepthBounded /\ ((pc = "call") ~> (pc # "call"))
C4_Witness ==
    /\ pc = "call" /\ Len(stack) = DepthLimit + 2 /\ Top.depth = DepthLimit + 1
    /\ Cardinality({path \in DOMAIN refSampled : refSampled[path] > 1}) >= 2

\* The lines of a text file whose every line ends in a line break.
Lines(text) == LET pieces == Split(text, "\n") IN SubSeq(pieces, 1, Len(pieces) - 1)
DataPrefix == "data: "
\* The payloads of the `data:` lines of the text-streaming output, without
\* the terminating [DONE] record.
DataPayloads(text) ==
    LET data == SelectSeq(Lines(text), LAMBDA line : StartsWith(line, DataPrefix))
        payloads == [j \in 1..Len(data) |-> SubSeq(data[j], Len(DataPrefix) + 1, Len(data[j]))]
    IN IF payloads # <<>> /\ payloads[Len(payloads)] = "[DONE]"
       THEN SubSeq(payloads, 1, Len(payloads) - 1) ELSE payloads
\* json.loads of a line: the event whose encoding the line is, and for any
\* other text a value that is none of the events.
JsonLoads(text) ==
    IF \E j \in 1..Len(events) : dumps(events[j], heap, {}) = Ok(text)
    THEN LET j == CHOOSE j \in 1..Len(events) : dumps(events[j], heap, {}) = Ok(text)
         IN Deep(events[j], heap, DeepFuel)
    ELSE [k |-> "other", text |-> text]
DecodeAll(texts) == [j \in 1..Len(texts) |-> JsonLoads(texts[j])]

\* C5: once both files are written, decoding the data payload lines of the
\* text-streaming file (the terminating record left out) gives the same
\* sequence of objects as decoding the line-delimited file line by line.
C5_FormatsDecodeAlike ==
    pc = "done" => DecodeAll(DataPayloads(sse)) = DecodeAll(Lines(jsonl))

\* C6: sample_from_schema raises nothing over the shape of the value of
\* enum, oneOf, anyOf, allOf, properties, required, minItems, minLength or
\* minimum.
C6_SamplerNeverRaises ==
    pc = "raised" => where \notin {"enum", "oneOf", "anyOf", "allOf", "object", "array", "primitive"}

\* C7: from one step to the next, every path SAMPLE_CACHE holds stays in it
\* and the value it maps to, followed through the mappings it holds, stays
\* the same.
C7_CacheEntriesNeverChange ==
    [][\A path \in DOMAIN SAMPLE_CACHE :
          /\ path \in DOMAIN SAMPLE_CACHE'
          /\ Deep(SAMPLE_CACHE'[path], heap', DeepFuel) = Deep(SAMPLE_CACHE[path], heap, DeepFuel)]_vars

\* C8: within a run sample_from_schema recurses into each referenced
\* document at most once; every later $ref to it is answered from
\* SAMPLE_CACHE.
C8_ReferencedDocumentSampledOnce ==
    \A path \in DOMAIN refSampled : refSampled[path] <= 1

FirstNonNull(vals) ==
    IF \A j \in 1..Len(vals) : vals[j] = Null THEN Null
    ELSE vals[CHOOSE j \in 1..Len(vals) : vals[j] # Null /\ \A h \in 1..(j - 1) : vals[h] = Null]
RECURSIVE Overlay(_, _)
Overlay(vals, h) ==
    IF vals = <<>> THEN EmptyMap ELSE Update(Overlay(SubSeq(vals, 1, Len(vals) - 1), h), h[vals[Len(vals)].id])
LastNonMapping(vals) ==
    vals[CHOOSE j \in 1..Len(vals) : ~IsMapping(vals[j]) /\ \A h \in (j + 1)..Len(vals) : IsMapping(vals[h])]
AllOfEnded == pc = "call" /\ stack # <<>> /\ Top.pc = "allOfDone" /\ Top.it # <<>>

AllOfOverlays ==
    (Resuming({"allOf"}) /\ Top.acc # Null) =>
        heap' = IF IsMapping(Top.acc) /\ IsMapping(ret)
                THEN [heap EXCEPT ![Top.acc.id] = Update(heap[Top.acc.id], heap[ret.id])]
                ELSE heap
\* When the loop over a non-empty allOf list has ended, every branch has
\* been sampled, the result is the first branch result that is not null
\* (null if all are), and if the result and the last branch result are both
\* mappings the result holds every member of the last branch result.
AllOfResult ==
    AllOfEnded =>
        /\ Len(Top.vals) = Len(Top.it)
        /\ Top.acc = FirstNonNull(Top.vals)
        /\ (IsMapping(Top.acc) /\ IsMapping(Top.vals[Len(Top.vals)])) =>
              \A key \in DOMAIN heap[Top.vals[Len(Top.vals)].id] :
                  heap[Top.acc.id][key] = heap[Top.vals[Len(Top.vals)].id][key]

====
